---- MODULE Spec2Model ----
(***************************************************************************)
(* Model of the blockchain core: the account ledger (package database),    *)
(* block validation (package block) and proof-of-work mining (package      *)
(* proof).                                                                 *)
(*                                                                         *)
(* Unsigned 64-bit quantities are modelled as unsigned WordBits-bit        *)
(* quantities: every addition, subtraction and multiplication is taken     *)
(* modulo Mod = 2^WordBits, exactly where the Go code wraps modulo 2^64.   *)
(***************************************************************************)
EXTENDS Integers, Sequences, FiniteSets, TLC

VARIABLES
    genesis,      \* Database.genesis.Balances : account -> initial balance
    latestBlock,  \* Database.latestBlock
    accounts,     \* Database.accounts : map AccountID -> Account
    pre,          \* the accounts map as it was when the last call started
    call,         \* the last Database call: its name, arguments and result
    applied,      \* <<FromID, Nonce>> of the transactions applied with a nil
                  \* error since the last Reset or Remove
    ops,          \* number of Database calls made so far
    vin,          \* arguments of the ValidateBlock call
    vout,         \* result of the ValidateBlock call
    pow,          \* the POW call: its arguments, locals and position
    ctxErr,       \* ctx.Err() of the context handed to POW
    sin,          \* arguments of the isHashSolved call
    sout,         \* result of the isHashSolved call
    mu,           \* Database.mu: the caller holding it for writing (0 for
                  \* none) and the callers holding it for reading
    th,           \* the concurrent callers: each one's call, position in
                  \* it, locals and result
    committed,    \* accounts and latestBlock as the last completed
                  \* mutating call left them
    search        \* what the mining search has done: ctx.Err() when it
                  \* started, whether a hash was tested, and how many were
                  \* tested after the context was cancelled (counted to 2)

vars == <<genesis, latestBlock, accounts, pre, call, applied, ops, vin, vout, pow, ctxErr,
          sin, sout, mu, th, committed, search>>

ledgerVars == <<genesis, latestBlock, accounts, pre, call, applied, ops>>
blockVars == <<vin, vout>>
powVars == <<pow, ctxErr, search>>
solveVars == <<sin, sout>>
concVars == <<mu, th, committed>>

----------------------------------------------------------------------------
(* Bounds *)

WordBits == 3
MaxOps == 2

Mod == 2 ^ WordBits
Half == Mod \div 2

Add(x, y) == (x + y) % Mod
Sub(x, y) == (x + Mod - y) % Mod
Mul(x, y) == (x * y) % Mod

----------------------------------------------------------------------------
(* Accounts *)

IDs == {"a", "b", "c"}

\* The zero value of acc.AccountID (the empty string).
ZeroID == ""

IDRank(id) == CASE id = ZeroID -> 0 [] id = "a" -> 1 [] id = "b" -> 2 [] id = "c" -> 3

AccNew(id, balance) == [AccountID |-> id, Balance |-> balance, Nonce |-> 0]

\* The zero value of acc.Account, which a map read of a missing key yields.
ZeroAccount == [AccountID |-> ZeroID, Balance |-> 0, Nonce |-> 0]

Has(m, k) == k \in DOMAIN m
Put(m, k, v) == [x \in (DOMAIN m) \cup {k} |-> IF x = k THEN v ELSE m[x]]
Delete(m, k) == [x \in (DOMAIN m) \ {k} |-> m[x]]
Get(m, k) == IF Has(m, k) THEN m[k] ELSE ZeroAccount
EmptyMap == [x \in {} |-> ZeroAccount]

----------------------------------------------------------------------------
(* Blocks *)

ZeroBlockHeader ==
    [Number |-> 0, PrevBlockHash |-> <<>>, TimeStamp |-> 0, BeneficiaryID |-> ZeroID,
     Difficulty |-> 0, MiningReward |-> 0, StateRoot |-> "", TransRoot |-> "", Nonce |-> 0]

\* The zero value of block.Block.
ZeroBlock == [Header |-> ZeroBlockHeader, MerkleTree |-> <<>>]

\* The blocks handed to the ledger; the ledger reads BeneficiaryID and
\* MiningReward of the header only.
LedgerBlock(bnfc, reward) ==
    [Header |-> [ZeroBlockHeader EXCEPT !.Number = 1, !.BeneficiaryID = bnfc,
                                        !.MiningReward = reward],
     MerkleTree |-> <<>>]

----------------------------------------------------------------------------
(* Hashes: 66-character strings, held as sequences of characters *)

HexDigits == <<"0", "1", "2", "3", "4", "5", "6", "7", "8", "9", "a", "b", "c", "d", "e", "f">>
Hex(n) == HexDigits[(n % 16) + 1]
Zeros(n) == [i \in 1..n |-> "0"]

\* signature.ZeroHash
ZeroHash == <<"0", "x">> \o Zeros(64)

StateRoots == {"s0", "s1"}
TransRoots == {"t1", "t2"}
StrRank(str) ==
    CASE str = "" -> 0 [] str = "s0" -> 1 [] str = "s1" -> 2 [] str = "t1" -> 3 [] str = "t2" -> 4

\* The number of zero digits the digest of a header starts with.
MaxLeadingZeros == 3

LeadingZeros(h) ==
    (3 * h.Nonce + h.Number + h.TimeStamp + h.Difficulty + h.MiningReward
       + IDRank(h.BeneficiaryID) + StrRank(h.StateRoot) + StrRank(h.TransRoot)
       + Len(h.PrevBlockHash)) % (MaxLeadingZeros + 1)

\* signature.Hash of a block header: "0x" and 64 hex digits, a deterministic
\* function of the header's fields.
SignatureHash(h) ==
    LET prevDigit == IF h.PrevBlockHash = ZeroHash THEN 0
                     ELSE IF Len(h.PrevBlockHash) < 7 THEN 1
                     ELSE 2 + Cardinality({i \in 3..7 : h.PrevBlockHash[i] = "0"})
        body == Zeros(LeadingZeros(h)) \o
                <<"f", Hex(h.Number), Hex(h.TimeStamp), Hex(h.Difficulty),
                  Hex(h.Difficulty \div 16), Hex(h.MiningReward), Hex(h.Nonce),
                  Hex(IDRank(h.BeneficiaryID)), Hex(StrRank(h.StateRoot)),
                  Hex(StrRank(h.TransRoot)), Hex(prevDigit)>>
    IN  <<"0", "x">> \o body \o [i \in 1..(64 - Len(body)) |-> "e"]

\* Block.Hash
BlockHash(b) == IF b.Header.Number = 0 THEN ZeroHash ELSE SignatureHash(b.Header)

----------------------------------------------------------------------------
(* Block validation *)

\* int64(x) of an unsigned word x: the same bits read as two's complement.
Int64(x) == IF x >= Half THEN x - Mod ELSE x

\* Signed addition as the machine does it, wrapping into -Half..Half-1.
AddInt64(x, y) == ((x + y + Half + Mod) % Mod) - Half

\* time.Unix(sec, 0) holds sec + unixToInternal seconds; the offset is the
\* 62135596800 s between year 1 and 1970, here on the scale of the word.
UnixToInternal == 1

TimeUnix(sec) == AddInt64(sec, UnixToInternal)

\* Time.Before of two times without monotonic reading and equal nanoseconds.
TimeBefore(t, u) == t < u

\* ValidateBlock with the parent-hash check made before the number check.
ValidateBlockParentFirst(b, previousBlock, stateRoot) ==
    LET nextNumber == Add(previousBlock.Header.Number, 1)
        parentTime == TimeUnix(Int64(previousBlock.Header.TimeStamp))
        blockTime == TimeUnix(Int64(b.Header.TimeStamp))
    IN  IF b.Header.Number >= Add(nextNumber, 2) THEN "forked"
        ELSE IF b.Header.Difficulty < previousBlock.Header.Difficulty THEN "difficulty"
        ELSE IF b.Header.PrevBlockHash # BlockHash(previousBlock) THEN "parent"
        ELSE IF b.Header.Number # nextNumber THEN "sequence"
        ELSE IF previousBlock.Header.TimeStamp > 0 /\ TimeBefore(blockTime, parentTime)
        THEN "timestamp"
        ELSE "nil"

ValidateBlock(b, previousBlock, stateRoot) ==
    LET nextNumber == Add(previousBlock.Header.Number, 1)
        parentTime == TimeUnix(Int64(previousBlock.Header.TimeStamp))
        blockTime == TimeUnix(Int64(b.Header.TimeStamp))
    IN  IF b.Header.Number >= Add(nextNumber, 2) THEN "forked"
        ELSE IF b.Header.Difficulty < previousBlock.Header.Difficulty THEN "difficulty"
        ELSE IF b.Header.Number # nextNumber THEN "sequence"
        ELSE IF b.Header.PrevBlockHash # BlockHash(previousBlock) THEN "parent"
        ELSE IF previousBlock.Header.TimeStamp > 0 /\ TimeBefore(blockTime, parentTime)
        THEN "timestamp"
        ELSE "nil"

\* The header fields the validated blocks are drawn from.
NumberValues == {0, 1, 2, 3, Mod - 2, Mod - 1}
TimeStampValues == {0, 1, 2, Half, Mod - 1}
DifficultyValues == {0, 1}

ValidatedHeader(number, difficulty, timeStamp, prevBlockHash) ==
    [ZeroBlockHeader EXCEPT !.Number = number, !.Difficulty = difficulty,
                            !.TimeStamp = timeStamp, !.PrevBlockHash = prevBlockHash,
                            !.BeneficiaryID = "a", !.StateRoot = "s0", !.TransRoot = "t1"]

PreviousBlocks ==
    {[Header |-> ValidatedHeader(n, d, t, ZeroHash), MerkleTree |-> <<>>] :
        n \in NumberValues, d \in DifficultyValues, t \in TimeStampValues}

\* A hash that is neither the zero hash nor the hash of a previous block.
OtherHash == SignatureHash(ValidatedHeader(1, 0, 0, <<>>))

CandidateBlocks(previousBlock) ==
    {[Header |-> ValidatedHeader(n, d, t, ph), MerkleTree |-> <<>>] :
        n \in NumberValues, d \in DifficultyValues, t \in TimeStampValues,
        ph \in {ZeroHash, BlockHash(previousBlock), OtherHash}}

ValidateBlockCall ==
    /\ vout = "none"
    /\ vout' = ValidateBlock(vin.b, vin.previousBlock, vin.stateRoot)
    /\ UNCHANGED vin

----------------------------------------------------------------------------
(* Ledger: the inputs the calls are made with *)

GenesisBalanceValues == {1, 5}

\* genesis.Balances; every key is one ToAccountID accepts (New returns no
\* Database otherwise).
GenesisSet ==
    UNION {[S -> GenesisBalanceValues] : S \in {{"a"}, {"a", "b"}}}

TxNonces == {1, 2}

\* The amounts of a transaction: nothing moved; a transfer with a tip and a
\* gas fee of 2; a transfer without fee; a tip only, with a gas fee of 1;
\* Value + Tip passing 2^WordBits; GasPrice * GasUnits passing 2^WordBits.
TxAmounts ==
    {[Value |-> 0, Tip |-> 0, GasPrice |-> 0, GasUnits |-> 1],
     [Value |-> 2, Tip |-> 1, GasPrice |-> 1, GasUnits |-> 2],
     [Value |-> 2, Tip |-> 0, GasPrice |-> 0, GasUnits |-> 1],
     [Value |-> 0, Tip |-> 2, GasPrice |-> 1, GasUnits |-> 1],
     [Value |-> Mod - 1, Tip |-> 2, GasPrice |-> 0, GasUnits |-> 1],
     [Value |-> 1, Tip |-> 0, GasPrice |-> 2, GasUnits |-> Half]}

Rewards == {0, 1, 2}

Txs ==
    {[FromID |-> f, ToID |-> t, Nonce |-> n, Value |-> a.Value, Tip |-> a.Tip,
      GasPrice |-> a.GasPrice, GasUnits |-> a.GasUnits] :
        f \in IDs, t \in IDs, n \in TxNonces, a \in TxAmounts}

ZeroTx ==
    [FromID |-> ZeroID, ToID |-> ZeroID, Nonce |-> 0, Value |-> 0, Tip |-> 0,
     GasPrice |-> 0, GasUnits |-> 0]

NoCall ==
    [op |-> "New", tx |-> ZeroTx, b |-> ZeroBlock, id |-> ZeroID, err |-> "nil",
     ret |-> <<>>, replay |-> FALSE, wrapped |-> FALSE, gasFee |-> 0]

----------------------------------------------------------------------------
(* Ledger: the operations *)

\* The accounts map New and Reset build from genesis.Balances.
GenesisAccounts(g) == [id \in DOMAIN g |-> AccNew(id, g[id])]

\* The sorted snapshots HashState can hash: the map is iterated in any order,
\* and the sort orders the snapshot by the AccountID field of its elements,
\* leaving elements whose AccountID fields are equal in the order met.
ByAccountLess(x, y) == IDRank(x.AccountID) < IDRank(y.AccountID)

Snapshots(m) ==
    LET n == Cardinality(DOMAIN m)
        orders == {f \in [1..n -> DOMAIN m] : \A i, j \in 1..n : i # j => f[i] # f[j]}
    IN  {[i \in 1..n |-> m[f[i]]] : f \in orders}

IsSorted(s) == \A i, j \in 1..Len(s) : i < j => ~ByAccountLess(s[j], s[i])

\* signature.Hash of the sorted snapshot, an injective function of it.
HashStateOutcomes(m) == {s \in Snapshots(m) : IsSorted(s)}

\* The effect of ApplyTransaction on the accounts map m, for the block's
\* beneficiary bnfcID: the resulting map, the error returned, whether a
\* subtraction took more from a balance than it held, and the gas fee taken.
ApplyTransactionResult(m, bnfcID, tx) ==
    LET from0 == IF Has(m, tx.FromID) THEN m[tx.FromID] ELSE AccNew(tx.FromID, 0)
        to0 == IF Has(m, tx.ToID) THEN m[tx.ToID] ELSE AccNew(tx.ToID, 0)
        bnfc0 == IF Has(m, bnfcID) THEN m[bnfcID] ELSE AccNew(bnfcID, 0)
        product == Mul(tx.GasPrice, tx.GasUnits)
        gasFee == IF product > from0.Balance THEN from0.Balance ELSE product
        from1 == [from0 EXCEPT !.Balance = Sub(@, gasFee)]
        bnfc1 == [bnfc0 EXCEPT !.Balance = Add(@, gasFee)]
        m1 == Put(Put(m, tx.FromID, from1), bnfcID, bnfc1)
        from2 == [from1 EXCEPT !.Balance = Sub(@, tx.Value)]
        to2 == [to0 EXCEPT !.Balance = Add(@, tx.Value)]
        from3 == [from2 EXCEPT !.Balance = Sub(@, tx.Tip)]
        bnfc3 == [bnfc1 EXCEPT !.Balance = Add(@, tx.Tip)]
        from4 == [from3 EXCEPT !.Nonce = tx.Nonce]
        m2 == Put(Put(Put(m1, tx.FromID, from4), tx.ToID, to2), bnfcID, bnfc3)
    IN  IF tx.Nonce # Add(from1.Nonce, 1)
        THEN [accounts |-> m1, err |-> "nonce", wrapped |-> gasFee > from0.Balance,
              gasFee |-> gasFee]
        ELSE IF from1.Balance = 0 \/ from1.Balance < Add(tx.Value, tx.Tip)
        THEN [accounts |-> m1, err |-> "funds", wrapped |-> gasFee > from0.Balance,
              gasFee |-> gasFee]
        ELSE [accounts |-> m2, err |-> "nil",
              wrapped |-> \/ gasFee > from0.Balance
                          \/ tx.Value > from1.Balance
                          \/ tx.Tip > from2.Balance,
              gasFee |-> gasFee]

ApplyTransaction(b, tx) ==
    /\ ops < MaxOps
    /\ LET r == ApplyTransactionResult(accounts, b.Header.BeneficiaryID, tx)
           key == <<tx.FromID, tx.Nonce>>
       IN  /\ accounts' = r.accounts
           /\ call' = [NoCall EXCEPT !.op = "ApplyTransaction", !.tx = tx, !.b = b,
                                     !.err = r.err, !.replay = key \in applied,
                                     !.wrapped = r.wrapped, !.gasFee = r.gasFee]
           /\ applied' = IF r.err = "nil" THEN applied \cup {key} ELSE applied
    /\ pre' = accounts
    /\ ops' = ops + 1
    /\ UNCHANGED <<genesis, latestBlock>>

ApplyMiningReward(b) ==
    /\ ops < MaxOps
    /\ LET account == Get(accounts, b.Header.BeneficiaryID)
           credited == [account EXCEPT !.Balance = Add(@, b.Header.MiningReward)]
       IN  accounts' = Put(accounts, b.Header.BeneficiaryID, credited)
    /\ call' = [NoCall EXCEPT !.op = "ApplyMiningReward", !.b = b]
    /\ pre' = accounts
    /\ ops' = ops + 1
    /\ UNCHANGED <<genesis, latestBlock, applied>>

Remove(accountID) ==
    /\ ops < MaxOps
    /\ accounts' = Delete(accounts, accountID)
    /\ call' = [NoCall EXCEPT !.op = "Remove", !.id = accountID]
    /\ applied' = {}
    /\ pre' = accounts
    /\ ops' = ops + 1
    /\ UNCHANGED <<genesis, latestBlock>>

Reset ==
    /\ ops < MaxOps
    /\ latestBlock' = ZeroBlock
    /\ accounts' = GenesisAccounts(genesis)
    /\ call' = [NoCall EXCEPT !.op = "Reset"]
    /\ applied' = {}
    /\ pre' = accounts
    /\ ops' = ops + 1
    /\ UNCHANGED genesis

HashState ==
    /\ ops < MaxOps
    /\ \E h \in HashStateOutcomes(accounts) :
          call' = [NoCall EXCEPT !.op = "HashState", !.ret = h]
    /\ pre' = accounts
    /\ ops' = ops + 1
    /\ UNCHANGED <<genesis, latestBlock, accounts, applied>>

UpdateLatestBlock(b) ==
    /\ ops < MaxOps
    /\ latestBlock' = b
    /\ call' = [NoCall EXCEPT !.op = "UpdateLatestBlock", !.b = b]
    /\ pre' = accounts
    /\ ops' = ops + 1
    /\ UNCHANGED <<genesis, accounts, applied>>

----------------------------------------------------------------------------
(* Concurrent callers of one Database: each call is a sequence of steps *)
(* between which the other callers may take theirs                        *)

Callers == {1, 2, 3}

\* sync.RWMutex, unlocked.
NoLock == [writer |-> 0, readers |-> {}]

\* A caller that has made no call.
NoCaller ==
    [pc |-> "idle", op |-> "none", tx |-> ZeroTx, b |-> ZeroBlock, id |-> ZeroID,
     from |-> ZeroAccount, to |-> ZeroAccount, bnfc |-> ZeroAccount,
     copied |-> EmptyMap, cap |-> 0, seeded |-> {}, out |-> <<>>,
     snap |-> [accounts |-> EmptyMap, latestBlock |-> ZeroBlock]]

ConcGenesis == [id \in {"a", "b"} |-> IF id = "a" THEN 5 ELSE 1]

\* A transfer that goes through on the genesis accounts, and the same with a
\* nonce that is refused after the gas fee is taken.
ConcTxs ==
    {[FromID |-> "a", ToID |-> "b", Nonce |-> n, Value |-> 2, Tip |-> 1,
      GasPrice |-> 1, GasUnits |-> 2] : n \in {1, 2}}

WriteOps == {"ApplyTransaction", "ApplyMiningReward", "Remove", "Reset", "UpdateLatestBlock"}

\* The calls the callers make.
ConcCalls ==
    {[NoCaller EXCEPT !.op = "ApplyTransaction", !.tx = t, !.b = LedgerBlock("c", 0)] :
        t \in ConcTxs}
      \cup {[NoCaller EXCEPT !.op = "ApplyMiningReward", !.b = LedgerBlock("c", 1)],
            [NoCaller EXCEPT !.op = "Remove", !.id = "b"],
            [NoCaller EXCEPT !.op = "Reset"],
            [NoCaller EXCEPT !.op = "UpdateLatestBlock", !.b = LedgerBlock("a", 2)],
            [NoCaller EXCEPT !.op = "Query", !.id = "a"],
            [NoCaller EXCEPT !.op = "Query", !.id = "c"],
            [NoCaller EXCEPT !.op = "Copy"],
            [NoCaller EXCEPT !.op = "HashState"],
            [NoCaller EXCEPT !.op = "LatestBlock"]}

\* The first statement of each method, and the first after the lock is taken.
Entry(op) ==
    IF op \in WriteOps THEN "Lock" ELSE IF op = "HashState" THEN "len" ELSE "RLock"

Body(op) ==
    CASE op = "ApplyTransaction" -> "gas"
      [] op = "ApplyMiningReward" -> "credit"
      [] op = "Remove" -> "delete"
      [] op = "Reset" -> "clearBlock"
      [] op = "UpdateLatestBlock" -> "setBlock"
      [] op = "Query" -> "query"
      [] op = "LatestBlock" -> "getBlock"
      [] op \in {"Copy", "HashState"} -> "range"

At(p, pc) == th[p].pc = pc
Goto(p, pc) == th' = [th EXCEPT ![p].pc = pc]

\* The first caller makes a mutating call, the last one a reading call, the
\* one between any call.
CallsOf(p) ==
    {c \in ConcCalls : /\ p = 1 => c.op \in WriteOps
                       /\ p = 3 => c.op \notin WriteOps}

\* A caller makes its call.
Call(p) ==
    /\ At(p, "idle")
    /\ th[p].op = "none"
    /\ \E c \in CallsOf(p) : th' = [th EXCEPT ![p] = [c EXCEPT !.pc = Entry(c.op)]]
    /\ ops' = ops + 1
    /\ UNCHANGED <<genesis, latestBlock, accounts, pre, call, applied, mu, committed>>

\* db.mu.Lock(): waits until nobody holds the lock.
Lock(p) ==
    /\ At(p, "Lock")
    /\ mu.writer = 0
    /\ mu.readers = {}
    /\ mu' = [mu EXCEPT !.writer = p]
    /\ th' = [th EXCEPT ![p].pc = Body(th[p].op), ![p].snap = committed]
    /\ UNCHANGED <<ledgerVars, committed>>

\* db.mu.Unlock(), deferred to the return of the mutating call.
Unlock(p) ==
    /\ At(p, "Unlock")
    /\ mu' = [mu EXCEPT !.writer = 0]
    /\ committed' = [accounts |-> accounts, latestBlock |-> latestBlock]
    /\ Goto(p, "idle")
    /\ UNCHANGED ledgerVars

\* A read lock taken without waiting for the writer.
RLockNoWait(p) ==
    /\ At(p, "RLock")
    /\ mu' = [mu EXCEPT !.readers = @ \cup {p}]
    /\ th' = [th EXCEPT ![p].pc = Body(th[p].op), ![p].snap = committed]
    /\ UNCHANGED <<ledgerVars, committed>>

\* db.mu.RLock(): waits until no writer holds the lock.
RLock(p) ==
    /\ At(p, "RLock")
    /\ mu.writer = 0
    /\ mu' = [mu EXCEPT !.readers = @ \cup {p}]
    /\ th' = [th EXCEPT ![p].pc = Body(th[p].op), ![p].snap = committed]
    /\ UNCHANGED <<ledgerVars, committed>>

\* db.mu.RUnlock(); HashState has its sort and hash still to do.
RUnlock(p) ==
    /\ At(p, "RUnlock")
    /\ mu' = [mu EXCEPT !.readers = @ \ {p}]
    /\ Goto(p, IF th[p].op = "HashState" THEN "sort" ELSE "idle")
    /\ UNCHANGED <<ledgerVars, committed>>

\* ApplyTransaction up to the first writes: the three accounts are read,
\* the gas fee moved between the copies, and from and bnfc written back.
ApplyGas(p) ==
    /\ At(p, "gas")
    /\ LET tx == th[p].tx
           bnfcID == th[p].b.Header.BeneficiaryID
           from0 == IF Has(accounts, tx.FromID) THEN accounts[tx.FromID]
                    ELSE AccNew(tx.FromID, 0)
           to0 == IF Has(accounts, tx.ToID) THEN accounts[tx.ToID] ELSE AccNew(tx.ToID, 0)
           bnfc0 == IF Has(accounts, bnfcID) THEN accounts[bnfcID] ELSE AccNew(bnfcID, 0)
           product == Mul(tx.GasPrice, tx.GasUnits)
           gasFee == IF product > from0.Balance THEN from0.Balance ELSE product
           from1 == [from0 EXCEPT !.Balance = Sub(@, gasFee)]
           bnfc1 == [bnfc0 EXCEPT !.Balance = Add(@, gasFee)]
       IN  /\ accounts' = Put(Put(accounts, tx.FromID, from1), bnfcID, bnfc1)
           /\ th' = [th EXCEPT ![p].pc = "final", ![p].from = from1, ![p].to = to0,
                               ![p].bnfc = bnfc1]
    /\ UNCHANGED <<genesis, latestBlock, pre, call, applied, ops, mu, committed>>

\* ApplyTransaction from the accounting checks on: an error, or the
\* transfer, the tip and the nonce on the copies and the three final writes.
ApplyFinal(p) ==
    /\ At(p, "final")
    /\ LET tx == th[p].tx
           bnfcID == th[p].b.Header.BeneficiaryID
           from == th[p].from
           from4 == [from EXCEPT !.Balance = Sub(Sub(@, tx.Value), tx.Tip),
                                 !.Nonce = tx.Nonce]
           to2 == [th[p].to EXCEPT !.Balance = Add(@, tx.Value)]
           bnfc3 == [th[p].bnfc EXCEPT !.Balance = Add(@, tx.Tip)]
       IN  IF tx.Nonce # Add(from.Nonce, 1)
           THEN /\ th' = [th EXCEPT ![p].pc = "Unlock", ![p].out = "nonce"]
                /\ UNCHANGED accounts
           ELSE IF from.Balance = 0 \/ from.Balance < Add(tx.Value, tx.Tip)
           THEN /\ th' = [th EXCEPT ![p].pc = "Unlock", ![p].out = "funds"]
                /\ UNCHANGED accounts
           ELSE /\ accounts' = Put(Put(Put(accounts, tx.FromID, from4), tx.ToID, to2),
                                   bnfcID, bnfc3)
                /\ th' = [th EXCEPT ![p].pc = "Unlock", ![p].out = "nil"]
    /\ UNCHANGED <<genesis, latestBlock, pre, call, applied, ops, mu, committed>>

\* ApplyMiningReward between Lock and Unlock.
Credit(p) ==
    /\ At(p, "credit")
    /\ LET b == th[p].b
           account == Get(accounts, b.Header.BeneficiaryID)
           credited == [account EXCEPT !.Balance = Add(@, b.Header.MiningReward)]
       IN  accounts' = Put(accounts, b.Header.BeneficiaryID, credited)
    /\ Goto(p, "Unlock")
    /\ UNCHANGED <<genesis, latestBlock, pre, call, applied, ops, mu, committed>>

\* Remove between Lock and Unlock.
DeleteAccount(p) ==
    /\ At(p, "delete")
    /\ accounts' = Delete(accounts, th[p].id)
    /\ Goto(p, "Unlock")
    /\ UNCHANGED <<genesis, latestBlock, pre, call, applied, ops, mu, committed>>

\* Reset: db.latestBlock = block.Block{}
ResetBlock(p) ==
    /\ At(p, "clearBlock")
    /\ latestBlock' = ZeroBlock
    /\ Goto(p, "makeAccounts")
    /\ UNCHANGED <<genesis, accounts, pre, call, applied, ops, mu, committed>>

\* Reset: db.accounts = make(...)
ResetAccounts(p) ==
    /\ At(p, "makeAccounts")
    /\ accounts' = EmptyMap
    /\ Goto(p, "seed")
    /\ UNCHANGED <<genesis, latestBlock, pre, call, applied, ops, mu, committed>>

\* Reset: one turn of the loop over genesis.Balances, in any order.
ResetSeed(p) ==
    /\ At(p, "seed")
    /\ IF th[p].seeded = DOMAIN genesis
       THEN Goto(p, "Unlock") /\ UNCHANGED accounts
       ELSE \E k \in DOMAIN genesis \ th[p].seeded :
               /\ accounts' = Put(accounts, k, AccNew(k, genesis[k]))
               /\ th' = [th EXCEPT ![p].seeded = @ \cup {k}]
    /\ UNCHANGED <<genesis, latestBlock, pre, call, applied, ops, mu, committed>>

\* UpdateLatestBlock between Lock and Unlock.
SetBlock(p) ==
    /\ At(p, "setBlock")
    /\ latestBlock' = th[p].b
    /\ Goto(p, "Unlock")
    /\ UNCHANGED <<genesis, accounts, pre, call, applied, ops, mu, committed>>

\* What Query returns for accountID on the accounts map m.
QueryResult(m, accountID) ==
    IF Has(m, accountID) THEN [account |-> m[accountID], err |-> "nil"]
    ELSE [account |-> ZeroAccount, err |-> "account does not exist"]

\* Query between RLock and RUnlock.
QueryRead(p) ==
    /\ At(p, "query")
    /\ th' = [th EXCEPT ![p].pc = "RUnlock", ![p].out = QueryResult(accounts, th[p].id)]
    /\ UNCHANGED <<ledgerVars, mu, committed>>

\* LatestBlock between RLock and RUnlock.
GetBlock(p) ==
    /\ At(p, "getBlock")
    /\ th' = [th EXCEPT ![p].pc = "RUnlock", ![p].out = latestBlock]
    /\ UNCHANGED <<ledgerVars, mu, committed>>

\* Copy and HashState: one turn of the loop over db.accounts, which meets
\* the entries in any order; the copy is kept under the key it was read at.
Range(p) ==
    /\ At(p, "range")
    /\ IF DOMAIN accounts \subseteq DOMAIN th[p].copied
       THEN th' = [th EXCEPT ![p].pc = "RUnlock", ![p].out = th[p].copied]
       ELSE \E k \in DOMAIN accounts \ DOMAIN th[p].copied :
               th' = [th EXCEPT ![p].copied = Put(@, k, accounts[k])]
    /\ UNCHANGED <<ledgerVars, mu, committed>>

\* HashState: len(db.accounts), read before the lock is taken. Read while a
\* writer is at work on the map it is a data race and yields any length.
HashLen(p) ==
    /\ At(p, "len")
    /\ \E n \in IF mu.writer # 0 THEN 0..Cardinality(IDs)
                ELSE {Cardinality(DOMAIN accounts)} :
          th' = [th EXCEPT ![p].pc = "RLock", ![p].cap = n]
    /\ UNCHANGED <<ledgerVars, mu, committed>>

\* HashState: the sort and the hash of the snapshot taken.
HashSort(p) ==
    /\ At(p, "sort")
    /\ \E h \in HashStateOutcomes(th[p].copied) :
          th' = [th EXCEPT ![p].pc = "idle", ![p].out = h]
    /\ UNCHANGED <<ledgerVars, mu, committed>>

----------------------------------------------------------------------------
(* Values the variables of the other components hold while one runs *)

IdleBlockVars == vin = <<>> /\ vout = "none"
IdleSolveVars == sin = <<>> /\ sout = "none"
NoSearch == [started |-> "none", hashed |-> FALSE, late |-> 0]
IdlePowVars == pow = [pc |-> "idle"] /\ ctxErr = "nil" /\ search = NoSearch
IdleConcVars ==
    /\ mu = NoLock
    /\ th = [p \in Callers |-> NoCaller]
    /\ committed = [accounts |-> EmptyMap, latestBlock |-> ZeroBlock]
IdleLedgerVars ==
    /\ genesis = <<>>
    /\ latestBlock = ZeroBlock
    /\ accounts = EmptyMap
    /\ pre = EmptyMap
    /\ call = NoCall
    /\ applied = {}
    /\ ops = 0

----------------------------------------------------------------------------
(* The ledger: New, then any calls *)

Init ==
    /\ genesis \in GenesisSet
    /\ latestBlock = ZeroBlock
    /\ accounts = GenesisAccounts(genesis)
    /\ pre = EmptyMap
    /\ call = NoCall
    /\ applied = {}
    /\ ops = 0
    /\ IdleBlockVars
    /\ IdlePowVars
    /\ IdleSolveVars
    /\ IdleConcVars

Next ==
    \/ \E bnfc \in IDs, tx \in Txs :
          ApplyTransaction(LedgerBlock(bnfc, 0), tx) /\ UNCHANGED <<blockVars, powVars, solveVars, concVars>>
    \/ \E bnfc \in IDs, reward \in Rewards :
          ApplyMiningReward(LedgerBlock(bnfc, reward)) /\ UNCHANGED <<blockVars, powVars, solveVars, concVars>>
    \/ \E id \in IDs : Remove(id) /\ UNCHANGED <<blockVars, powVars, solveVars, concVars>>
    \/ Reset /\ UNCHANGED <<blockVars, powVars, solveVars, concVars>>
    \/ HashState /\ UNCHANGED <<blockVars, powVars, solveVars, concVars>>
    \/ \E bnfc \in IDs : UpdateLatestBlock(LedgerBlock(bnfc, 1)) /\ UNCHANGED <<blockVars, powVars, solveVars, concVars>>

Spec == Init /\ [][Next]_vars

----------------------------------------------------------------------------
(* Proof of work *)

\* Difficulty is a uint16.
Uint16 == 65536

\* const match = "0x00000000000000000"
Match == <<"0", "x">> \o Zeros(17)

\* isHashSolved comparing difficulty characters, the "0x" not counted in.
IsHashSolvedNoPrefix(difficulty, hash) ==
    LET d == difficulty % Uint16
    IN  IF Len(hash) # 66 THEN "unsolved"
        ELSE IF d > Len(hash) \/ d > Len(Match) THEN "panic"
        ELSE IF SubSeq(hash, 1, d) = SubSeq(Match, 1, d) THEN "solved"
        ELSE "unsolved"

\* isHashSolved: "solved", "unsolved", or "panic" when a slice bound passes
\* the length of the string sliced.
IsHashSolved(difficulty, hash) ==
    LET d == (difficulty + 2) % Uint16
    IN  IF Len(hash) # 66 THEN "unsolved"
        ELSE IF d > Len(hash) \/ d > Len(Match) THEN "panic"
        ELSE IF SubSeq(hash, 1, d) = SubSeq(Match, 1, d) THEN "solved"
        ELSE "unsolved"

\* The highest difficulty match has zeros for.
MaxDifficulty == 17

\* The difficulties and hashes isHashSolved is called with: "0x" and a run
\* of zeros of several lengths, filled up with another digit to 66, 65 or 67
\* characters; 66 zeros; a hash not starting with "0"; the empty string.
SolveDifficulties == (0..MaxDifficulty) \cup {18, 19, 63, 64, 65, 1000, 65533, 65534, 65535}

Filled(prefix, len) == prefix \o [i \in 1..(len - Len(prefix)) |-> "f"]

SolveHashes ==
    {Filled(<<"0", "x">> \o Zeros(k), 66) : k \in {0, 1, 2, 3, 16, 17, 18, 64}}
      \cup {Filled(<<"0", "x">> \o Zeros(k), len) : k \in {0, 17, 63}, len \in {65, 67}}
      \cup {Zeros(66), Filled(Zeros(19), 66), <<"1", "x">> \o Zeros(64),
            <<"0", "0", "x">> \o Zeros(63), <<>>}

IsHashSolvedCall ==
    /\ sout = "none"
    /\ sout' = IsHashSolved(sin.difficulty, sin.hash)
    /\ UNCHANGED sin

\* merkle.NewTree fails on an empty list; RootHex is the root of the tree.
NewTreeFails(trans) == Len(trans) = 0
RootHex(tree) == IF Len(tree) = 1 THEN "t1" ELSE "t2"

\* The arguments POW is called with.
PowDifficulties == {0, 1, 2, 17, 18, 65534}
PowTrans == {<<>>, <<1>>, <<1, 2>>}
PowClock == {1, 2}
PowNonceStarts == 0..(Half - 1)

PowPrevBlocks ==
    {ZeroBlock,
     [Header |-> ValidatedHeader(1, 0, 1, ZeroHash), MerkleTree |-> <<1>>],
     [Header |-> ValidatedHeader(2, 1, 2, OtherHash), MerkleTree |-> <<1>>],
     [Header |-> ValidatedHeader(Mod - 1, 0, 1, OtherHash), MerkleTree |-> <<1>>],
     [Header |-> ValidatedHeader(Mod - 3, 0, 1, OtherHash), MerkleTree |-> <<1>>]}

POWArgs ==
    [BeneficiaryID : {"a"}, Difficulty : PowDifficulties, MiningReward : {1},
     PrevBlock : PowPrevBlocks, StateRoot : {"s0"}, Trans : PowTrans]

\* What POW hands back: the block and the error.
POWReturn(block, err) ==
    pow' = [pow EXCEPT !.pc = "returned", !.out = block, !.err = err]

\* What POW does when performPOW returns err.
PerformPOWReturn(err) ==
    IF err # "nil" THEN POWReturn(ZeroBlock, err) ELSE POWReturn(pow.b, "nil")

\* POW up to its call of performPOW, which gets a copy of the block.
POWBuild ==
    /\ pow.pc = "POW"
    /\ LET args == pow.args
           prevBlockHash == IF args.PrevBlock.Header.Number > 0
                            THEN BlockHash(args.PrevBlock) ELSE ZeroHash
       IN  IF NewTreeFails(args.Trans)
           THEN POWReturn(ZeroBlock, "merkle")
           ELSE \E now \in PowClock :
                   LET b == [Header |->
                                [Number |-> Add(args.PrevBlock.Header.Number, 1),
                                 PrevBlockHash |-> prevBlockHash,
                                 TimeStamp |-> now,
                                 BeneficiaryID |-> args.BeneficiaryID,
                                 Difficulty |-> args.Difficulty,
                                 MiningReward |-> args.MiningReward,
                                 StateRoot |-> args.StateRoot,
                                 TransRoot |-> RootHex(args.Trans),
                                 Nonce |-> 0],
                             MerkleTree |-> args.Trans]
                   IN  pow' = [pow EXCEPT !.pc = "rand", !.b = b, !.pb = b]
    /\ UNCHANGED <<ctxErr, search>>

\* performPOW: the random starting nonce (rand.Int on rand.Reader is taken
\* not to fail).
PerformRand ==
    /\ pow.pc = "rand"
    /\ \E n \in PowNonceStarts :
          pow' = [pow EXCEPT !.pc = "check", !.pb.Header.Nonce = n]
    /\ search' = [search EXCEPT !.started = ctxErr]
    /\ UNCHANGED ctxErr

\* The head of the loop without the look at the context.
PerformCheckNever ==
    /\ pow.pc = "check"
    /\ pow' = [pow EXCEPT !.pc = "hash"]
    /\ UNCHANGED <<ctxErr, search>>

\* performPOW: the head of the loop, where cancellation is looked for.
PerformCheck ==
    /\ pow.pc = "check"
    /\ IF ctxErr # "nil"
       THEN PerformPOWReturn(ctxErr)
       ELSE pow' = [pow EXCEPT !.pc = "hash"]
    /\ UNCHANGED <<ctxErr, search>>

\* The record of one more hash test.
HashTested ==
    [search EXCEPT !.hashed = TRUE,
                   !.late = IF ctxErr = "nil" THEN @ ELSE IF @ < 2 THEN @ + 1 ELSE 2]

\* performPOW: the block is hashed and the hash tested.
PerformHash ==
    /\ pow.pc = "hash"
    /\ LET solved == IsHashSolved(pow.pb.Header.Difficulty, BlockHash(pow.pb))
       IN  IF solved = "panic" THEN pow' = [pow EXCEPT !.pc = "panic"]
           ELSE IF solved = "unsolved"
           THEN pow' = [pow EXCEPT !.pc = "check", !.pb.Header.Nonce = Add(@, 1)]
           ELSE PerformPOWReturn("nil")
    /\ search' = HashTested
    /\ UNCHANGED ctxErr

\* The context is cancelled, or its deadline passes, while POW runs.
Cancel ==
    /\ pow.pc \notin {"returned", "panic"}
    /\ ctxErr = "nil"
    /\ ctxErr' \in {"canceled", "deadline"}
    /\ UNCHANGED <<pow, search>>

----------------------------------------------------------------------------
(* Block validation: one call on any candidate and any previous block *)

BlockInit ==
    /\ \E p \in PreviousBlocks, sr \in StateRoots :
          \E c \in CandidateBlocks(p) :
             vin = [b |-> c, previousBlock |-> p, stateRoot |-> sr]
    /\ vout = "none"
    /\ IdleLedgerVars
    /\ IdlePowVars
    /\ IdleSolveVars
    /\ IdleConcVars

BlockNext == ValidateBlockCall /\ UNCHANGED <<ledgerVars, powVars, solveVars, concVars>>

BlockSpec == BlockInit /\ [][BlockNext]_vars

----------------------------------------------------------------------------
(* Mining: one call of POW, under a context that may be cancelled *)

PowInit ==
    /\ \E args \in POWArgs :
          pow = [pc |-> "POW", args |-> args, b |-> ZeroBlock, pb |-> ZeroBlock,
                 out |-> ZeroBlock, err |-> "nil"]
    /\ ctxErr \in {"nil", "canceled"}
    /\ search = NoSearch
    /\ IdleLedgerVars
    /\ IdleBlockVars
    /\ IdleSolveVars
    /\ IdleConcVars

PowNext ==
    \/ POWBuild /\ UNCHANGED <<ledgerVars, blockVars, solveVars, concVars>>
    \/ PerformRand /\ UNCHANGED <<ledgerVars, blockVars, solveVars, concVars>>
    \/ PerformCheck /\ UNCHANGED <<ledgerVars, blockVars, solveVars, concVars>>
    \/ PerformHash /\ UNCHANGED <<ledgerVars, blockVars, solveVars, concVars>>
    \/ Cancel /\ UNCHANGED <<ledgerVars, blockVars, solveVars, concVars>>

PowSpec == PowInit /\ [][PowNext]_vars

----------------------------------------------------------------------------
(* The difficulty test: one call of isHashSolved on any difficulty and hash *)

SolveInit ==
    /\ \E d \in SolveDifficulties, h \in SolveHashes : sin = [difficulty |-> d, hash |-> h]
    /\ sout = "none"
    /\ IdleLedgerVars
    /\ IdleBlockVars
    /\ IdlePowVars
    /\ IdleConcVars

SolveNext == IsHashSolvedCall /\ UNCHANGED <<ledgerVars, blockVars, powVars, concVars>>

SolveSpec == SolveInit /\ [][SolveNext]_vars

----------------------------------------------------------------------------
(* The ledger under concurrent callers: a Database as New leaves it, or    *)
(* as UpdateLatestBlock and an ApplyTransaction with a nil error leave it, *)
(* then one call by each caller, interleaved step by step                  *)

UsedAccounts ==
    LET t == CHOOSE t \in ConcTxs : t.Nonce = 1
    IN  ApplyTransactionResult(GenesisAccounts(ConcGenesis), "c", t).accounts

ConcInit ==
    /\ genesis = ConcGenesis
    /\ \/ accounts = GenesisAccounts(genesis) /\ latestBlock = ZeroBlock
       \/ accounts = UsedAccounts /\ latestBlock = LedgerBlock("c", 1)
    /\ pre = EmptyMap
    /\ call = NoCall
    /\ applied = {}
    /\ ops = 0
    /\ mu = NoLock
    /\ th = [p \in Callers |-> NoCaller]
    /\ committed = [accounts |-> accounts, latestBlock |-> latestBlock]
    /\ IdleBlockVars
    /\ IdlePowVars
    /\ IdleSolveVars

ConcNext ==
    \E p \in Callers :
        \/ Call(p) /\ UNCHANGED <<blockVars, powVars, solveVars>>
        \/ Lock(p) /\ UNCHANGED <<blockVars, powVars, solveVars>>
        \/ Unlock(p) /\ UNCHANGED <<blockVars, powVars, solveVars>>
        \/ RLock(p) /\ UNCHANGED <<blockVars, powVars, solveVars>>
        \/ RUnlock(p) /\ UNCHANGED <<blockVars, powVars, solveVars>>
        \/ ApplyGas(p) /\ UNCHANGED <<blockVars, powVars, solveVars>>
        \/ ApplyFinal(p) /\ UNCHANGED <<blockVars, powVars, solveVars>>
        \/ Credit(p) /\ UNCHANGED <<blockVars, powVars, solveVars>>
        \/ DeleteAccount(p) /\ UNCHANGED <<blockVars, powVars, solveVars>>
        \/ ResetBlock(p) /\ UNCHANGED <<blockVars, powVars, solveVars>>
        \/ ResetAccounts(p) /\ UNCHANGED <<blockVars, powVars, solveVars>>
        \/ ResetSeed(p) /\ UNCHANGED <<blockVars, powVars, solveVars>>
        \/ SetBlock(p) /\ UNCHANGED <<blockVars, powVars, solveVars>>
        \/ QueryRead(p) /\ UNCHANGED <<blockVars, powVars, solveVars>>
        \/ GetBlock(p) /\ UNCHANGED <<blockVars, powVars, solveVars>>
        \/ Range(p) /\ UNCHANGED <<blockVars, powVars, solveVars>>
        \/ HashLen(p) /\ UNCHANGED <<blockVars, powVars, solveVars>>
        \/ HashSort(p) /\ UNCHANGED <<blockVars, powVars, solveVars>>

ConcSpec == ConcInit /\ [][ConcNext]_vars

----------------------------------------------------------------------------
(* Claims about block validation *)

Validated == vout # "none"
CandidateHeader == vin.b.Header
PreviousHeader == vin.previousBlock.Header

\* The fork condition: the number is at least previous.Number + 3, the sum
\* taken as the code takes it.
ForkCase == CandidateHeader.Number >= Add(Add(PreviousHeader.Number, 1), 2)

\* C6: ValidateBlock makes five checks in order and the first that fails
\* decides the result: forked if Number >= previous.Number + 3, else
\* difficulty if Difficulty < previous.Difficulty, else sequence if
\* Number # previous.Number + 1, else parent if PrevBlockHash #
\* previous.Hash(), else timestamp if previous.TimeStamp # 0 and
\* TimeStamp < previous.TimeStamp, else nil; whatever stateRoot is.
C6_OrderedChecks ==
    Validated =>
        vout = IF ForkCase THEN "forked"
               ELSE IF CandidateHeader.Difficulty < PreviousHeader.Difficulty THEN "difficulty"
               ELSE IF CandidateHeader.Number # Add(PreviousHeader.Number, 1) THEN "sequence"
               ELSE IF CandidateHeader.PrevBlockHash # BlockHash(vin.previousBlock) THEN "parent"
               ELSE IF /\ PreviousHeader.TimeStamp # 0
                       /\ CandidateHeader.TimeStamp < PreviousHeader.TimeStamp
               THEN "timestamp"
               ELSE "nil"

\* C7 as stated: a block that is not the next number, and not a fork case,
\* gets the sequence error whatever its other header fields are.
C7_SequenceErrorAlways ==
    (Validated /\ ~ForkCase /\ CandidateHeader.Number # Add(PreviousHeader.Number, 1))
        => vout = "sequence"

\* C7 as amended: a block that is not the next number, not a fork case, and
\* whose difficulty is not below the previous block's gets the sequence
\* error, whatever its parent hash and timestamp are.
C7_SequenceError ==
    (/\ Validated
     /\ ~ForkCase
     /\ CandidateHeader.Number # Add(PreviousHeader.Number, 1)
     /\ CandidateHeader.Difficulty >= PreviousHeader.Difficulty)
        => vout = "sequence"

\* A block two numbers ahead, with a wrong parent hash and a timestamp before
\* its parent's, has been given the sequence error.
C7_Witness ==
    /\ vout = "sequence"
    /\ PreviousHeader.Number = 1
    /\ CandidateHeader.Number = 3
    /\ CandidateHeader.PrevBlockHash # BlockHash(vin.previousBlock)
    /\ PreviousHeader.TimeStamp = 2
    /\ CandidateHeader.TimeStamp = 1

\* C8: every block whose number is at least previous.Number + 2 (the other
\* chain being two or more blocks ahead of ours) gets ErrChainForked.
C8_ForkedTwoAhead ==
    (/\ Validated
     /\ PreviousHeader.Number + 2 < Mod
     /\ CandidateHeader.Number >= PreviousHeader.Number + 2)
        => vout = "forked"

----------------------------------------------------------------------------
(* Claims about ApplyTransaction *)

\* Balance and nonce of an account in a map, an absent account holding 0.
BalanceOf(m, id) == IF Has(m, id) THEN m[id].Balance ELSE 0
NonceOf(m, id) == IF Has(m, id) THEN m[id].Nonce ELSE 0

Applied == call.op = "ApplyTransaction"
Beneficiary == call.b.Header.BeneficiaryID

\* g = min(GasPrice * GasUnits, from.Balance), on the ledger the call found.
ClaimedGasFee ==
    LET product == Mul(call.tx.GasPrice, call.tx.GasUnits)
        balance == BalanceOf(pre, call.tx.FromID)
    IN  IF product > balance THEN balance ELSE product

\* The balance of id after debits and credits are summed per account.
NetBalance(id, debit, toCredit, bnfcCredit) ==
    (BalanceOf(pre, id) + 4 * Mod
       - (IF id = call.tx.FromID THEN debit ELSE 0)
       + (IF id = call.tx.ToID THEN toCredit ELSE 0)
       + (IF id = Beneficiary THEN bnfcCredit ELSE 0)) % Mod

\* C2: when ApplyTransaction returns nil, the ledger is the prior ledger with
\* FromID debited g + Value + Tip, ToID credited Value, BeneficiaryID
\* credited g + Tip, summed per account when identifiers coincide, and the
\* nonce of FromID equal to tx.Nonce.
C2_NetEffectOnSuccess ==
    (Applied /\ call.err = "nil") =>
        /\ \A id \in IDs :
              BalanceOf(accounts, id) =
                  NetBalance(id, ClaimedGasFee + call.tx.Value + call.tx.Tip,
                             call.tx.Value, ClaimedGasFee + call.tx.Tip)
        /\ NonceOf(accounts, call.tx.FromID) = call.tx.Nonce
        /\ \A id \in IDs \ {call.tx.FromID} : NonceOf(accounts, id) = NonceOf(pre, id)

\* C3: a transaction with the FromID and Nonce of one already applied with a
\* nil error (no Reset or Remove since) is refused with the nonce error.
C3_ReplayRefused ==
    (Applied /\ call.replay) => call.err = "nonce"

\* C4: when ApplyTransaction returns the nonce or the funds error, the ledger
\* differs from the prior one only by FromID's balance being g less and
\* BeneficiaryID's g more (net zero when they are one account); no nonce
\* changes and ToID's entry is neither modified nor created.
C4_OnlyGasFeeOnFailure ==
    (Applied /\ call.err \in {"nonce", "funds"}) =>
        /\ \A id \in IDs :
              /\ BalanceOf(accounts, id) = NetBalance(id, ClaimedGasFee, 0, ClaimedGasFee)
              /\ NonceOf(accounts, id) = NonceOf(pre, id)
        /\ call.tx.ToID \notin {call.tx.FromID, Beneficiary} =>
              /\ Has(accounts, call.tx.ToID) <=> Has(pre, call.tx.ToID)
              /\ Has(pre, call.tx.ToID) => accounts[call.tx.ToID] = pre[call.tx.ToID]

\* C5: every subtraction ApplyTransaction makes from a balance takes no more
\* than the balance holds, so no balance wraps around.
C5_NoBalanceWraps ==
    Applied => ~call.wrapped

----------------------------------------------------------------------------
(* Claims about HashState *)

\* C9: in every ledger state HashState has one possible result, whatever
\* order the map is iterated in.
C9_HashStateDeterministic ==
    \A h1, h2 \in HashStateOutcomes(accounts) : h1 = h2

Mutated == call.op \in {"ApplyTransaction", "ApplyMiningReward", "Remove", "Reset"}

BalanceOrExistenceChanged ==
    \/ DOMAIN pre # DOMAIN accounts
    \/ \E id \in DOMAIN pre \cap DOMAIN accounts : pre[id].Balance # accounts[id].Balance

\* C10: across one ledger operation HashState's value differs if and only if
\* some balance changed or some account was created or deleted.
C10_HashChangesIffBalanceOrExistence ==
    Mutated =>
        \A h1 \in HashStateOutcomes(pre), h2 \in HashStateOutcomes(accounts) :
            (h1 # h2) <=> BalanceOrExistenceChanged

----------------------------------------------------------------------------
(* Claims about mining *)

\* C1: a block POW returns with a nil error (difficulty 0..17) carries the
\* nonce the search found: its hash solves its difficulty.
C1_ReturnedBlockSolved ==
    (pow.pc = "returned" /\ pow.err = "nil" /\ pow.args.Difficulty <= 17) =>
        IsHashSolved(pow.out.Header.Difficulty, BlockHash(pow.out)) = "solved"

\* The search has ended: POW has returned, or the program has crashed.
SearchEnded == pow.pc \in {"returned", "panic"}

\* C11: when the context is already cancelled as the search starts (the
\* transaction list being non-empty), POW returns the context's error and no
\* mined block, and no hash is computed or tested.
C11_CancelledBeforeSearch ==
    search.started \notin {"none", "nil"} =>
        /\ ~search.hashed
        /\ pow.pc # "panic"
        /\ pow.pc = "returned" => (pow.err = search.started /\ pow.out = ZeroBlock)

\* POW has returned the cancellation error of a context that was cancelled
\* before the call.
C11_Witness ==
    /\ pow.pc = "returned"
    /\ search.started = "canceled"
    /\ Len(pow.args.Trans) > 0
    /\ pow.err = "canceled"

----------------------------------------------------------------------------
(* Claims about the difficulty test *)

Tested == sout # "none"

\* C12 as stated: for a difficulty in 0..17 a hash is reported solved if and
\* only if it is 66 characters long and its first difficulty + 2 characters
\* are all '0'.
C12_LeadingCharactersAllZero ==
    (Tested /\ sin.difficulty <= MaxDifficulty) =>
        (sout = "solved" <=>
            /\ Len(sin.hash) = 66
            /\ \A i \in 1..(sin.difficulty + 2) : sin.hash[i] = "0")

\* C12 as amended: for a difficulty in 0..17 a hash is reported solved if
\* and only if it is 66 characters long, starts with "0x", and the
\* difficulty characters after that are all '0'; any other hash, and any
\* hash whose length is not 66, is reported unsolved.
C12_ZerosAfterPrefix ==
    (Tested /\ sin.difficulty <= MaxDifficulty) =>
        /\ sout \in {"solved", "unsolved"}
        /\ sout = "solved" <=>
              /\ Len(sin.hash) = 66
              /\ sin.hash[1] = "0"
              /\ sin.hash[2] = "x"
              /\ \A i \in 3..(sin.difficulty + 2) : sin.hash[i] = "0"

\* A hash with exactly 17 zeros after "0x" has been reported solved at
\* difficulty 17.
C12_Witness ==
    /\ sout = "solved"
    /\ sin.difficulty = MaxDifficulty
    /\ sin.hash[20] # "0"

\* C13: for a difficulty above 17 no hash is reported solved and the test
\* does not crash: every hash is reported unsolved.
C13_AboveCeilingRejected ==
    (Tested /\ sin.difficulty > MaxDifficulty) => sout = "unsolved"

----------------------------------------------------------------------------
(* Claims about mining on top of a parent *)

Parent == pow.args.PrevBlock

\* POW has returned a block with a nil error, for a difficulty not below the
\* parent's and at a clock reading not earlier than the parent's timestamp.
MinedOnParent ==
    /\ pow.pc = "returned"
    /\ pow.err = "nil"
    /\ pow.args.Difficulty >= Parent.Header.Difficulty
    /\ pow.out.Header.TimeStamp >= Parent.Header.TimeStamp

\* C14: a block POW returns with a nil error, mined on a parent P with a
\* difficulty not below P's and a clock not earlier than P's timestamp,
\* passes ValidateBlock against P; its Number is P.Number + 1 and its
\* PrevBlockHash is P.Hash().
C14_MinedBlockValidates ==
    MinedOnParent =>
        /\ ValidateBlock(pow.out, Parent, pow.args.StateRoot) = "nil"
        /\ pow.out.Header.Number = Add(Parent.Header.Number, 1)
        /\ pow.out.Header.PrevBlockHash = BlockHash(Parent)

----------------------------------------------------------------------------
(* Claims about concurrent callers *)

HoldsRead(p) == p \in mu.readers
HoldsWrite(p) == mu.writer = p

\* The caller's next step reads, or writes, the accounts map or latestBlock.
ReadsShared(p) == th[p].pc \in {"len", "query", "getBlock", "range"}
WritesShared(p) ==
    th[p].pc \in {"gas", "final", "credit", "delete", "clearBlock", "makeAccounts",
                  "seed", "setBlock"}

\* The read of caller p has been made and its result is in out.
HasRead(p, op) ==
    /\ th[p].op = op
    /\ th[p].pc \in (IF op = "HashState" THEN {"idle"} ELSE {"RUnlock", "idle"})

\* C15: what a reader gets is what the state left by the last completed
\* mutating call gives: while a caller holds the lock for reading, accounts
\* and latestBlock are as that call left them, every entry copied so far is
\* an entry of that state, and the result of Query, Copy, HashState and
\* LatestBlock is the one computed from that state.
C15_ReadersSeeCommittedState ==
    \A p \in Callers :
        /\ HoldsRead(p) =>
              /\ accounts = committed.accounts
              /\ latestBlock = committed.latestBlock
              /\ th[p].snap = committed
        /\ th[p].op \in {"Copy", "HashState"} =>
              \A k \in DOMAIN th[p].copied :
                  Has(th[p].snap.accounts, k) /\ th[p].copied[k] = th[p].snap.accounts[k]
        /\ HasRead(p, "Query") => th[p].out = QueryResult(th[p].snap.accounts, th[p].id)
        /\ HasRead(p, "LatestBlock") => th[p].out = th[p].snap.latestBlock
        /\ HasRead(p, "Copy") => th[p].out = th[p].snap.accounts
        /\ HasRead(p, "HashState") => th[p].out \in HashStateOutcomes(th[p].snap.accounts)

\* A Copy running beside an ApplyTransaction that was refused has returned
\* the accounts as that call left them, the gas fee taken.
C15_Witness ==
    \E p, q \in Callers :
        /\ HasRead(p, "Copy")
        /\ th[p].pc = "idle"
        /\ th[q].op = "ApplyTransaction"
        /\ th[q].pc = "idle"
        /\ th[q].out = "nonce"
        /\ th[p].out = committed.accounts
        /\ th[p].out # GenesisAccounts(genesis)

\* C16: no caller is about to access the accounts map or latestBlock
\* without holding the lock while another caller, holding it for writing,
\* is about to write them.
C16_NoUnlockedAccessDuringWrite ==
    \A p, q \in Callers :
        (p # q /\ (ReadsShared(p) \/ WritesShared(p)) /\ ~HoldsRead(p) /\ ~HoldsWrite(p))
            => ~(WritesShared(q) /\ HoldsWrite(q))

----------------------------------------------------------------------------
(* Claims about cancellation during the search *)

\* The context was live when the search started and has been cancelled since.
CancelledDuringSearch == search.started = "nil" /\ ctxErr # "nil"

\* C17: once the context is cancelled during performPOW, at most one more
\* hash is tested, the one of the iteration already past its look at the
\* context; the search does not crash, and when POW has returned it has
\* returned the cancellation error and no block, unless that one hash was a
\* solution.
C17_CancelledSearchReturns ==
    CancelledDuringSearch =>
        /\ search.late <= 1
        /\ pow.pc # "panic"
        /\ pow.pc = "returned" =>
              \/ pow.err = ctxErr /\ pow.out = ZeroBlock
              \/ pow.err = "nil" /\ search.late = 1

----------------------------------------------------------------------------
(* Claims about the gas fee, the keys and the total of the ledger *)

Min(x, y) == IF x < y THEN x ELSE y

\* The balance the sender held when the call started (0 without an account).
SenderBalance == IF Has(pre, call.tx.FromID) THEN pre[call.tx.FromID].Balance ELSE 0

\* C18: the gas fee ApplyTransaction takes is the smaller of the sender's
\* balance and the product GasPrice x GasUnits, the product of the two
\* numbers and not its remainder modulo the word.
C18_GasFeeOfTrueProduct ==
    call.op = "ApplyTransaction" =>
        call.gasFee = Min(call.tx.GasPrice * call.tx.GasUnits, SenderBalance)

\* C19: every entry of the accounts map holds an account whose AccountID is
\* the key it is stored under.
C19_KeyIsAccountID ==
    \A k \in DOMAIN accounts : accounts[k].AccountID = k

RECURSIVE SumBalances(_, _)
SumBalances(m, S) ==
    IF S = {} THEN 0
    ELSE LET k == CHOOSE x \in S : TRUE
         IN  m[k].Balance + SumBalances(m, S \ {k})

\* The sum of all balances of the accounts map m, as a number.
TotalBalance(m) == SumBalances(m, DOMAIN m)

\* No sum, product or difference of the call can have passed the word: the
\* amounts of the transaction and twice the total held stay below it.
NoWrapAround ==
    /\ ~call.wrapped
    /\ call.tx.GasPrice * call.tx.GasUnits < Mod
    /\ call.tx.Value + call.tx.Tip < Mod
    /\ 2 * TotalBalance(pre) + call.b.Header.MiningReward < Mod

\* C20: where nothing wraps around, ApplyTransaction leaves the sum of all
\* balances as it was, with a nil error or without, and ApplyMiningReward
\* adds Header.MiningReward to it.
C20_FundsConserved ==
    NoWrapAround =>
        /\ call.op = "ApplyTransaction" => TotalBalance(accounts) = TotalBalance(pre)
        /\ call.op = "ApplyMiningReward" =>
              TotalBalance(accounts) = TotalBalance(pre) + call.b.Header.MiningReward

====
